---------------------------- MODULE Spec2Model ----------------------------
(***************************************************************************)
(* A model of qanta/guesser/dan/util.py: the embedding table construction  *)
(* and its on-disk cache, the token -> index conversion, the sequence      *)
(* formatter, the label class registries and the batch generator.          *)
(*                                                                         *)
(* The module holds one state machine per component.  Every specification  *)
(* leaves the variables of the other components at their initial (parked)  *)
(* value.                                                                  *)
(*                                                                         *)
(* Python values are modelled as follows.  A list is a sequence whose      *)
(* Python index j is the TLA+ index j + 1.  A dict is a function whose     *)
(* domain is its key set.  A float is a pair <<numerator, denominator>>.   *)
(* A raised exception is the record [kind |-> "raise", exc |-> name].      *)
(***************************************************************************)
EXTENDS Integers, Sequences, FiniteSets, TLC

VARIABLES
  \* create_embeddings / convert_text_to_embeddings_indices
  e_pc, e_vocab, e_source, e_result, e_words, e_indices,
  \* load_embeddings: the file system and the calling processes
  tmp_file, perm_file, glove, pc, vocab, ret, built, tmp0, perm0,
  clobbered, ncalls, nbuilds, everOpened, sawOpened, wrote, freshStart,
  afterBuild, lastBuilt, one_at_a_time,
  \* tf_format
  f_pc, f_input, f_max_len, f_zero_index, f_once, f_twice,
  \* compute_*_classes
  c_props0, c_props, c_called, c_i_to_class, c_class_to_i,
  \* create_batches
  b_pc, b_n, b_ny, b_is_array, b_batch_size, b_pad, b_shuffle, b_order, b_i,
  b_yielded

embVars == <<e_pc, e_vocab, e_source, e_result, e_words, e_indices>>
loadVars == <<tmp_file, perm_file, glove, pc, vocab, ret, built, tmp0, perm0,
              clobbered, ncalls, nbuilds, everOpened, sawOpened, wrote,
              freshStart, afterBuild, lastBuilt, one_at_a_time>>
fmtVars == <<f_pc, f_input, f_max_len, f_zero_index, f_once, f_twice>>
clsVars == <<c_props0, c_props, c_called, c_i_to_class, c_class_to_i>>
batchVars == <<b_pc, b_n, b_ny, b_is_array, b_batch_size, b_pad, b_shuffle,
               b_order, b_i, b_yielded>>
vars == <<embVars, loadVars, fmtVars, clsVars, batchVars>>

\* What an action of one component leaves alone: the other components.
EmbFrame == UNCHANGED <<loadVars, fmtVars, clsVars, batchVars>>
LoadFrame == UNCHANGED <<embVars, fmtVars, clsVars, batchVars>>
FmtFrame == UNCHANGED <<embVars, loadVars, clsVars, batchVars>>
ClsFrame == UNCHANGED <<embVars, loadVars, fmtVars, batchVars>>
BatchFrame == UNCHANGED <<embVars, loadVars, fmtVars, clsVars>>

---------------------------------------------------------------------------
(* Bounds of the model.                                                    *)

\* Longest pretrained source file, in lines.
MaxLines == 3
\* Longest token list handed to convert_text_to_embeddings_indices.
MaxText == 2

---------------------------------------------------------------------------
(* Python helpers.                                                         *)

Min(a, b) == IF a < b THEN a ELSE b

\* s[lo:hi] of a Python list, for 0 <= lo and any hi >= 0.
Slice(s, lo, hi) == SubSeq(s, lo + 1, Min(hi, Len(s)))

Raise(e) == [kind |-> "raise", exc |-> e]

EmptyDict == [k \in {} |-> 0]

RECURSIVE SumSeq(_)
SumSeq(s) == IF s = <<>> THEN 0 ELSE Head(s) + SumSeq(Tail(s))

---------------------------------------------------------------------------
(* create_embeddings and convert_text_to_embeddings_indices.               *)
(*                                                                         *)
(* A line of the pretrained file is blank, a row "<word> <float>" or a row *)
(* whose number does not parse.  Vectors have one component: the claims    *)
(* are about the rows' indices, not their width.                           *)

UNK == "UNK"

Blank == [kind |-> "blank"]
Row(w, v) == [kind |-> "row", word |-> w, val |-> v]
BadRow(w) == [kind |-> "badrow", word |-> w]

\* The file at GLOVE_WE does not exist or cannot be opened.
NoFile == [readable |-> FALSE]
File(ls) == [readable |-> TRUE, lines |-> ls]

\* embeddings.mean(axis=0) of a non-empty array, as an exact fraction.
Mean(embeddings) ==
  <<SumSeq([k \in 1..Len(embeddings) |-> embeddings[k][1]]), Len(embeddings)>>

\* Lines 60-64: the array, its mean, the stacked table and the UNK key.
\* np.vstack of an empty array (shape (1, 0)) and the mean of nothing
\* (shape (1, 1)) raises ValueError.
FinishEmbeddings(embeddings, embedding_lookup, i) ==
  IF embeddings = <<>>
    THEN Raise("ValueError")
    ELSE [kind |-> "table",
          embed |-> Append(embeddings, Mean(embeddings)),
          lookup |-> (UNK :> i) @@ embedding_lookup]

\* Lines 52-59: the loop over the file's lines.
RECURSIVE ReadLines(_, _, _, _, _)
ReadLines(ls, vocabulary, embeddings, embedding_lookup, i) ==
  IF ls = <<>>
    THEN FinishEmbeddings(embeddings, embedding_lookup, i)
    ELSE LET l == Head(ls) IN
      IF l.kind = "blank"
        THEN Raise("IndexError")
        ELSE IF l.word \in vocabulary
          THEN IF l.kind = "badrow"
            THEN Raise("ValueError")
            ELSE ReadLines(Tail(ls), vocabulary,
                           Append(embeddings, <<l.val, 1>>),
                           (l.word :> i) @@ embedding_lookup, i + 1)
          ELSE ReadLines(Tail(ls), vocabulary, embeddings,
                         embedding_lookup, i)

create_embeddings(vocabulary, source) ==
  IF ~source.readable
    THEN Raise("FileNotFoundError")
    ELSE ReadLines(source.lines, vocabulary, <<>>, EmptyDict, 0)

convert_text_to_embeddings_indices(words, embedding_lookup) ==
  [k \in 1..Len(words) |->
     IF words[k] \in DOMAIN embedding_lookup
       THEN embedding_lookup[words[k]]
       ELSE embedding_lookup[UNK]]

SrcWords == {"a", "b", UNK}
Tokens == SrcWords \cup {"zzz"}
SrcLines == {Row("a", 1), Row("a", 3), Row("b", 1), Row(UNK, 1), Blank,
             BadRow("a")}

SeqsUpTo(S, n) == UNION {[1..k -> S] : k \in 0..n}

NoResult == [kind |-> "none"]

EmbInit ==
  /\ e_pc = "start"
  /\ e_vocab \in SUBSET SrcWords
  /\ e_source \in {NoFile} \cup {File(ls) : ls \in SeqsUpTo(SrcLines, MaxLines)}
  /\ e_result = NoResult
  /\ e_words = <<>>
  /\ e_indices = <<>>

EmbParked ==
  /\ e_pc = "parked"
  /\ e_vocab = {}
  /\ e_source = NoFile
  /\ e_result = NoResult
  /\ e_words = <<>>
  /\ e_indices = <<>>

EmbCreate ==
  /\ EmbFrame
  /\ e_pc = "start"
  /\ e_result' = create_embeddings(e_vocab, e_source)
  /\ e_pc' = IF e_result'.kind = "table" THEN "created" ELSE "raised"
  /\ UNCHANGED <<e_vocab, e_source, e_words, e_indices>>

EmbConvert ==
  /\ EmbFrame
  /\ e_pc = "created"
  /\ \E words \in SeqsUpTo(Tokens, MaxText) :
       /\ e_words' = words
       /\ e_indices' = convert_text_to_embeddings_indices(words, e_result.lookup)
  /\ e_pc' = "converted"
  /\ UNCHANGED <<e_vocab, e_source, e_result>>

---------------------------------------------------------------------------
(* load_embeddings: the cache files and the processes that call it.        *)
(*                                                                         *)
(* A file is absent, empty (created or truncated by open(..., 'wb')),      *)
(* partial (some of the pickle flushed), corrupt (bytes of two writers     *)
(* mixed) or holds a pickled table.  A step of a process is one access to  *)
(* the file system; what a process does between two accesses is local and  *)
(* belongs to the step that follows.                                       *)

\* Calls one process makes.
MaxCalls == 2

Procs == {"p1", "p2"}

Absent == [kind |-> "absent"]
Empty == [kind |-> "empty"]
Partial == [kind |-> "partial"]
Corrupt == [kind |-> "corrupt"]

\* os.path.exists
Exists(file) == file.kind # "absent"

\* safe_open(path, 'rb') and pickle.load
PickleLoad(file) ==
  CASE file.kind = "table" -> file
    [] file.kind = "absent" -> Raise("FileNotFoundError")
    [] file.kind = "empty" -> Raise("EOFError")
    [] OTHER -> Raise("UnpicklingError")

None == [kind |-> "None"]
VocabOf(S) == [kind |-> "set", elems |-> S]
VocabArgs == {None, VocabOf({"a"}), VocabOf({"a", "b"}), VocabOf({"zzz"})}

\* What the pretrained file at GLOVE_WE may hold.
GloveFile == File(<<Row("a", 1), Row("c", 2), Row("b", 3)>>)

\* Tables cached by an earlier run.
CachedTmp == [kind |-> "table", embed |-> <<<<7, 1>>, <<7, 1>>>>,
              lookup |-> ("t" :> 0) @@ (UNK :> 1)]
CachedPerm == [kind |-> "table", embed |-> <<<<9, 1>>, <<9, 1>>>>,
               lookup |-> ("p" :> 0) @@ (UNK :> 1)]

LoadInit ==
  /\ one_at_a_time \in BOOLEAN
  /\ tmp_file \in {Absent, CachedTmp}
  /\ perm_file \in {Absent, CachedPerm}
  /\ glove \in {GloveFile, NoFile}
  /\ pc = [p \in Procs |-> "idle"]
  /\ vocab = [p \in Procs |-> None]
  /\ ret = [p \in Procs |-> NoResult]
  /\ built = [p \in Procs |-> NoResult]
  /\ tmp0 = [p \in Procs |-> Absent]
  /\ perm0 = [p \in Procs |-> Absent]
  /\ clobbered = [p \in Procs |-> FALSE]
  /\ ncalls = [p \in Procs |-> 0]
  /\ nbuilds = 0
  /\ everOpened = FALSE
  /\ sawOpened = [p \in Procs |-> FALSE]
  /\ wrote = [p \in Procs |-> FALSE]
  /\ freshStart = (tmp_file = Absent /\ perm_file = Absent)
  /\ afterBuild = [p \in Procs |-> FALSE]
  /\ lastBuilt = NoResult

LoadParked ==
  /\ one_at_a_time = TRUE
  /\ tmp_file = Absent
  /\ perm_file = Absent
  /\ glove = NoFile
  /\ pc = [p \in Procs |-> "parked"]
  /\ vocab = [p \in Procs |-> None]
  /\ ret = [p \in Procs |-> NoResult]
  /\ built = [p \in Procs |-> NoResult]
  /\ tmp0 = [p \in Procs |-> Absent]
  /\ perm0 = [p \in Procs |-> Absent]
  /\ clobbered = [p \in Procs |-> FALSE]
  /\ ncalls = [p \in Procs |-> 0]
  /\ nbuilds = 0
  /\ everOpened = FALSE
  /\ sawOpened = [p \in Procs |-> FALSE]
  /\ wrote = [p \in Procs |-> FALSE]
  /\ freshStart = FALSE
  /\ afterBuild = [p \in Procs |-> FALSE]
  /\ lastBuilt = NoResult

\* The call returns or raises r.
Return(p, r) ==
  /\ ret' = [ret EXCEPT ![p] = r]
  /\ pc' = [pc EXCEPT ![p] = "idle"]
  /\ ncalls' = [ncalls EXCEPT ![p] = @ + 1]

\* A write to the temporary file by p lands in the middle of the pickle of
\* every other process that has flushed a part of its own and not closed.
Clobber(p) ==
  [q \in Procs |-> IF q # p /\ pc[q] = "close" THEN TRUE ELSE clobbered[q]]

\* load_embeddings(tmp_embedding_file, embedding_file, vocab=v) is entered.
Call(p, v) ==
  /\ LoadFrame
  /\ pc[p] = "idle"
  /\ ncalls[p] < MaxCalls
  /\ one_at_a_time => \A q \in Procs \ {p} : pc[q] = "idle"
  /\ pc' = [pc EXCEPT ![p] = "check_tmp"]
  /\ vocab' = [vocab EXCEPT ![p] = v]
  /\ ret' = [ret EXCEPT ![p] = NoResult]
  /\ built' = [built EXCEPT ![p] = NoResult]
  /\ tmp0' = [tmp0 EXCEPT ![p] = tmp_file]
  /\ perm0' = [perm0 EXCEPT ![p] = perm_file]
  /\ clobbered' = [clobbered EXCEPT ![p] = FALSE]
  /\ sawOpened' = [sawOpened EXCEPT ![p] = FALSE]
  /\ wrote' = [wrote EXCEPT ![p] = FALSE]
  /\ afterBuild' = [afterBuild EXCEPT ![p] = (lastBuilt.kind = "table")]
  /\ UNCHANGED <<one_at_a_time, tmp_file, perm_file, glove, ncalls, nbuilds,
                 everOpened, freshStart, lastBuilt>>

\* A variant of TmpBranch: the permanent cache is looked at first.
TmpBranchPermFirst(p) ==
  IF Exists(perm_file) THEN "load_perm"
  ELSE IF Exists(tmp_file) THEN "load_tmp" ELSE "check_perm"

\* Line 68: os.path.exists(tmp_embedding_file).
TmpBranch(p) == IF Exists(tmp_file) THEN "load_tmp" ELSE "check_perm"

CheckTmp(p) ==
  /\ LoadFrame
  /\ pc[p] = "check_tmp"
  /\ pc' = [pc EXCEPT ![p] = TmpBranch(p)]
  /\ sawOpened' = [sawOpened EXCEPT ![p] = everOpened]
  /\ UNCHANGED <<one_at_a_time, tmp_file, perm_file, glove, vocab, ret,
                 built, tmp0, perm0, clobbered, ncalls, nbuilds, everOpened,
                 wrote, freshStart, afterBuild, lastBuilt>>

\* Lines 70-71: the temporary cache is read.
LoadTmp(p) ==
  /\ LoadFrame
  /\ pc[p] = "load_tmp"
  /\ Return(p, PickleLoad(tmp_file))
  /\ UNCHANGED <<one_at_a_time, tmp_file, perm_file, glove, vocab, built,
                 tmp0, perm0, clobbered, nbuilds, everOpened, sawOpened,
                 wrote, freshStart, afterBuild, lastBuilt>>

\* Line 72: os.path.exists(os.path.join(root_directory, embedding_file)).
PermBranch(p) == IF Exists(perm_file) THEN "load_perm" ELSE "fresh"

CheckPerm(p) ==
  /\ LoadFrame
  /\ pc[p] = "check_perm"
  /\ pc' = [pc EXCEPT ![p] = PermBranch(p)]
  /\ UNCHANGED <<one_at_a_time, tmp_file, perm_file, glove, vocab, ret,
                 built, tmp0, perm0, clobbered, ncalls, nbuilds, everOpened,
                 sawOpened, wrote, freshStart, afterBuild, lastBuilt>>

\* Lines 74-75: the permanent cache is read.
LoadPerm(p) ==
  /\ LoadFrame
  /\ pc[p] = "load_perm"
  /\ Return(p, PickleLoad(perm_file))
  /\ UNCHANGED <<one_at_a_time, tmp_file, perm_file, glove, vocab, built,
                 tmp0, perm0, clobbered, nbuilds, everOpened, sawOpened,
                 wrote, freshStart, afterBuild, lastBuilt>>

\* Lines 77-78: no vocabulary, no construction.
FreshNoVocab(p) ==
  /\ LoadFrame
  /\ pc[p] = "fresh"
  /\ vocab[p] = None
  /\ Return(p, Raise("ValueError"))
  /\ UNCHANGED <<one_at_a_time, tmp_file, perm_file, glove, vocab, built,
                 tmp0, perm0, clobbered, nbuilds, everOpened, sawOpened,
                 wrote, freshStart, afterBuild, lastBuilt>>

\* A variant of OpenedForWrite: the file appears only with the first flush.
OpenedForWriteLazy(file) == file

\* What safe_open(tmp_embedding_file, 'wb') leaves on disk: the file,
\* created or truncated.
OpenedForWrite(file) == Empty

\* Line 79: safe_open(tmp_embedding_file, 'wb').
OpenWrite(p) ==
  /\ LoadFrame
  /\ pc[p] = "fresh"
  /\ vocab[p] # None
  /\ tmp_file' = OpenedForWrite(tmp_file)
  /\ everOpened' = TRUE
  /\ wrote' = [wrote EXCEPT ![p] = TRUE]
  /\ clobbered' = Clobber(p)
  /\ pc' = [pc EXCEPT ![p] = "create"]
  /\ UNCHANGED <<one_at_a_time, perm_file, glove, vocab, ret, built, tmp0,
                 perm0, ncalls, nbuilds, sawOpened, freshStart, afterBuild,
                 lastBuilt>>

\* Line 81: create_embeddings(vocab) returns the table.
CreateOk(p) ==
  /\ LoadFrame
  /\ pc[p] = "create"
  /\ create_embeddings(vocab[p].elems, glove).kind = "table"
  /\ built' = [built EXCEPT ![p] = create_embeddings(vocab[p].elems, glove)]
  /\ nbuilds' = nbuilds + 1
  /\ pc' = [pc EXCEPT ![p] = "dump"]
  /\ UNCHANGED <<one_at_a_time, tmp_file, perm_file, glove, vocab, ret,
                 tmp0, perm0, clobbered, ncalls, everOpened, sawOpened,
                 wrote, freshStart, afterBuild, lastBuilt>>

\* Line 81: create_embeddings(vocab) raises; the with block closes the file,
\* to which nothing was written, and the exception leaves the call.
CreateRaises(p) ==
  /\ LoadFrame
  /\ pc[p] = "create"
  /\ create_embeddings(vocab[p].elems, glove).kind = "raise"
  /\ nbuilds' = nbuilds + 1
  /\ Return(p, create_embeddings(vocab[p].elems, glove))
  /\ UNCHANGED <<one_at_a_time, tmp_file, perm_file, glove, vocab, built,
                 tmp0, perm0, clobbered, everOpened, sawOpened, wrote,
                 freshStart, afterBuild, lastBuilt>>

\* Line 82: pickle.dump writes through the buffered file; what exceeds the
\* buffer reaches the disk.
Dump(p) ==
  /\ LoadFrame
  /\ pc[p] = "dump"
  /\ tmp_file' = Partial
  /\ clobbered' = Clobber(p)
  /\ pc' = [pc EXCEPT ![p] = "close"]
  /\ UNCHANGED <<one_at_a_time, perm_file, glove, vocab, ret, built, tmp0,
                 perm0, ncalls, nbuilds, everOpened, sawOpened, wrote,
                 freshStart, afterBuild, lastBuilt>>

\* A variant of Flushed: the rest of the pickle never reaches the disk.
FlushedLost(p) == {tmp_file}

\* What the file holds once p has flushed the rest of its pickle: the table,
\* unless another process truncated or wrote the file since p's first flush.
Flushed(p) == IF clobbered[p] THEN {built[p], Corrupt} ELSE {built[p]}

\* Line 83: the with block flushes and closes the file, the table is returned.
Close(p) ==
  /\ LoadFrame
  /\ pc[p] = "close"
  /\ tmp_file' \in Flushed(p)
  /\ clobbered' = Clobber(p)
  /\ lastBuilt' = built[p]
  /\ Return(p, built[p])
  /\ UNCHANGED <<one_at_a_time, perm_file, glove, vocab, built, tmp0, perm0,
                 nbuilds, everOpened, sawOpened, wrote, freshStart,
                 afterBuild>>

Step(p) ==
  \/ \E v \in VocabArgs : Call(p, v)
  \/ CheckTmp(p)
  \/ LoadTmp(p)
  \/ CheckPerm(p)
  \/ LoadPerm(p)
  \/ FreshNoVocab(p)
  \/ OpenWrite(p)
  \/ CreateOk(p)
  \/ CreateRaises(p)
  \/ Dump(p)
  \/ Close(p)

---------------------------------------------------------------------------
(* tf_format.                                                              *)

\* Sequences of one collection, elements of one sequence, largest max_len.
MaxRows == 2
MaxRowLen == 2
MaxLenArg == 3

\* A variant of PadRow: "if" for "while", one element is appended at most.
PadRowOnce(row, max_len, zero_index) ==
  IF Len(row) < max_len THEN Append(row, zero_index) ELSE row

\* Lines 114-115: while len(row) < max_len: row.append(zero_index)
RECURSIVE PadRow(_, _, _)
PadRow(row, max_len, zero_index) ==
  IF Len(row) < max_len
    THEN PadRow(Append(row, zero_index), max_len, zero_index)
    ELSE row

\* A variant of FormatRow: the padded row is stored back without the slice.
FormatRowNoSlice(row, max_len, zero_index) ==
  [k \in 1..(IF Len(row) < max_len THEN max_len ELSE Len(row)) |->
     IF k <= Len(row) THEN row[k] ELSE zero_index]

\* Lines 113-116: one pass of the loop body, the row that is stored back.
FormatRow(row, max_len, zero_index) ==
  Slice(PadRow(row, max_len, zero_index), 0, max_len)

\* Lines 112-117, for max_len >= 0.
tf_format(x_data, max_len, zero_index) ==
  [i \in 1..Len(x_data) |-> FormatRow(x_data[i], max_len, zero_index)]

Indices == {1, 2}
PadIndices == {0, 1}

FmtInit ==
  /\ f_pc = "start"
  /\ f_input \in SeqsUpTo(SeqsUpTo(Indices, MaxRowLen), MaxRows)
  /\ f_max_len \in 0..MaxLenArg
  /\ f_zero_index \in PadIndices
  /\ f_once = <<>>
  /\ f_twice = <<>>

FmtParked ==
  /\ f_pc = "parked"
  /\ f_input = <<>>
  /\ f_max_len = 0
  /\ f_zero_index = 0
  /\ f_once = <<>>
  /\ f_twice = <<>>

\* tf_format(x_data, max_len, zero_index)
Format ==
  /\ FmtFrame
  /\ f_pc = "start"
  /\ f_once' = tf_format(f_input, f_max_len, f_zero_index)
  /\ f_pc' = "once"
  /\ UNCHANGED <<f_input, f_max_len, f_zero_index, f_twice>>

\* tf_format of what tf_format returned, with the same max_len and pad index.
FormatAgain ==
  /\ FmtFrame
  /\ f_pc = "once"
  /\ f_twice' = tf_format(f_once, f_max_len, f_zero_index)
  /\ f_pc' = "twice"
  /\ UNCHANGED <<f_input, f_max_len, f_zero_index, f_once>>

---------------------------------------------------------------------------
(* compute_ans_type_classes, compute_category_classes and                  *)
(* compute_gender_classes.                                                 *)

\* Records of one list.
MaxRecords == 2

Fields == {"ans_type", "category", "gender"}

\* Lines 177, 186-187 and 196.
ClassList(field) ==
  CASE field = "ans_type" ->
         <<"abs", "anim", "char", "event", "org", "people", "place", "work",
           "missing">>
    [] field = "category" ->
         <<"Fine_Arts", "History", "Literature", "Other", "Science",
           "Social_Science", "missing">>
    [] field = "gender" -> <<"male", "female", "non_person", "missing">>

\* Lines 178, 188 and 197: {key: index for index, key in enumerate(i_to_class)}
ClassToI(i_to_class) ==
  [c \in {i_to_class[k] : k \in 1..Len(i_to_class)} |->
     (CHOOSE k \in 1..Len(i_to_class) :
        /\ i_to_class[k] = c
        /\ \A m \in (k + 1)..Len(i_to_class) : i_to_class[m] # c) - 1]

\* A variant of Normalized: the membership test is inverted.
NormalizedInverted(value, class_to_i) ==
  IF value \in DOMAIN class_to_i THEN "missing" ELSE value

\* Lines 180-181, 190-191 and 199-200: what one record's field is left as.
Normalized(value, class_to_i) ==
  IF value \notin DOMAIN class_to_i THEN "missing" ELSE value

\* Lines 179-181, 189-191 and 198-200: the loop over the records.
NormalizeAll(properties, field, class_to_i) ==
  [k \in 1..Len(properties) |->
     [properties[k] EXCEPT ![field] = Normalized(@, class_to_i)]]

Records ==
  [ans_type : {"char", "bogus", "missing"},
   category : {"History", "char"},
   gender : {"male", "Male"}]

NoClasses == [f \in Fields |-> <<>>]
NoIds == [f \in Fields |-> EmptyDict]

ClsInit ==
  /\ c_props0 \in SeqsUpTo(Records, MaxRecords)
  /\ c_props = c_props0
  /\ c_called = {}
  /\ c_i_to_class = NoClasses
  /\ c_class_to_i = NoIds

ClsParked ==
  /\ c_props0 = <<>>
  /\ c_props = <<>>
  /\ c_called = Fields
  /\ c_i_to_class = NoClasses
  /\ c_class_to_i = NoIds

\* compute_<field>_classes(properties): the records are changed in place,
\* the class list and its inverse are returned.
ComputeClasses(field) ==
  /\ ClsFrame
  /\ field \notin c_called
  /\ c_called' = c_called \cup {field}
  /\ c_props' = NormalizeAll(c_props, field, ClassToI(ClassList(field)))
  /\ c_i_to_class' = [c_i_to_class EXCEPT ![field] = ClassList(field)]
  /\ c_class_to_i' = [c_class_to_i EXCEPT ![field] = ClassToI(ClassList(field))]
  /\ UNCHANGED c_props0

compute_ans_type_classes == ComputeClasses("ans_type")

compute_category_classes == ComputeClasses("category")

compute_gender_classes == ComputeClasses("gender")

---------------------------------------------------------------------------
(* create_batches: a generator.  One action is one next() of its caller:   *)
(* the code from the previous yield (or the entry) to the next yield, to   *)
(* the end of the loop or to a raise.                                      *)
(*                                                                         *)
(* Row k (Python index k - 1) of array a is the symbol <<a, k>>; <<a, 0>>  *)
(* is a row of zeros.  The six arrays have b_n rows each, except that the  *)
(* caller may hand in a y_data of another length.                          *)

\* Most examples, largest batch_size.
MaxN == 4
MaxBatch == 3

Arrays == {"x", "y", "len", "ans_type", "category", "gender"}

Data(a, n) == [k \in 1..n |-> <<a, k>>]

\* np.zeros((count, ...))
Zeros(a, count) == [k \in 1..count |-> <<a, 0>>]

\* Line 129: list(range(n))
Identity(n) == [k \in 1..n |-> k - 1]

\* Line 131: np.random.shuffle(order) leaves some permutation of order.
Shuffled(n) ==
  {o \in [1..n -> 0..(n - 1)] : \A j, k \in 1..n : o[j] = o[k] => j = k}

\* Lines 129-131.
Orders(n, shuffle) == IF shuffle THEN Shuffled(n) ELSE {Identity(n)}

\* order[i:i + batch_size]
Window(order, i, batch_size) == Slice(order, i, i + batch_size)

\* a[window]: the rows of a at the indices of window.
Take(a, n, window) == [m \in 1..Len(window) |-> Data(a, n)[window[m] + 1]]

\* Lines 134-140: the six arrays at one window.
FullBatch(n, window) == [a \in Arrays |-> Take(a, n, window)]

\* A variant of PaddedBatch: y_data is not padded.
PaddedBatchShortY(n, window, batch_size) ==
  [a \in Arrays |->
     IF a = "y" THEN Take(a, n, window)
     ELSE Take(a, n, window) \o Zeros(a, batch_size - Len(window))]

\* Lines 142-167: the six arrays at one window, each followed by
\* batch_size - size rows of zeros.
PaddedBatch(n, window, batch_size) ==
  [a \in Arrays |->
     Take(a, n, window) \o Zeros(a, batch_size - Len(window))]

\* A variant of NextIndex: range(0, n), the windows overlap.
NextIndexByOne(i, batch_size) == i + 1

\* Line 132: the step of range(0, n, batch_size).
NextIndex(i, batch_size) == i + batch_size

BatchInit ==
  /\ b_pc = "created"
  /\ b_n \in 0..MaxN
  /\ b_ny \in {b_n, b_n + 1}
  /\ b_is_array \in BOOLEAN
  /\ b_batch_size \in 1..MaxBatch
  /\ b_pad \in BOOLEAN
  /\ b_shuffle \in BOOLEAN
  /\ b_order = <<>>
  /\ b_i = 0
  /\ b_yielded = <<>>

BatchParked ==
  /\ b_pc = "parked"
  /\ b_n = 0
  /\ b_ny = 0
  /\ b_is_array = TRUE
  /\ b_batch_size = 1
  /\ b_pad = FALSE
  /\ b_shuffle = FALSE
  /\ b_order = <<>>
  /\ b_i = 0
  /\ b_yielded = <<>>

\* Lines 132-169: the loop header at index i and one pass of its body:
\* the generator yields a batch and is suspended, or ends.
Advance(i, order) ==
  LET window == Window(order, i, b_batch_size) IN
  /\ b_order' = order
  /\ IF i >= b_n
       THEN b_pc' = "done" /\ UNCHANGED <<b_i, b_yielded>>
       ELSE IF Len(window) = b_batch_size
         THEN /\ b_yielded' = Append(b_yielded, FullBatch(b_n, window))
              /\ b_i' = i
              /\ b_pc' = "suspended"
         ELSE IF b_pad
           THEN /\ b_yielded' = Append(b_yielded,
                                       PaddedBatch(b_n, window, b_batch_size))
                /\ b_i' = i
                /\ b_pc' = "suspended"
           ELSE b_pc' = "done" /\ UNCHANGED <<b_i, b_yielded>>

\* Lines 124-127: the first next() raises ValueError.
FirstNextRaises ==
  /\ BatchFrame
  /\ b_pc = "created"
  /\ ~b_is_array \/ b_n # b_ny
  /\ b_pc' = "raised"
  /\ UNCHANGED <<b_n, b_ny, b_is_array, b_batch_size, b_pad, b_shuffle,
                 b_order, b_i, b_yielded>>

\* Lines 124-132: the first next() of the generator.
FirstNext ==
  /\ BatchFrame
  /\ b_pc = "created"
  /\ b_is_array /\ b_n = b_ny
  /\ \E order \in Orders(b_n, b_shuffle) : Advance(0, order)
  /\ UNCHANGED <<b_n, b_ny, b_is_array, b_batch_size, b_pad, b_shuffle>>

\* A later next(): the loop goes on after the yield.
LaterNext ==
  /\ BatchFrame
  /\ b_pc = "suspended"
  /\ Advance(NextIndex(b_i, b_batch_size), b_order)
  /\ UNCHANGED <<b_n, b_ny, b_is_array, b_batch_size, b_pad, b_shuffle>>

---------------------------------------------------------------------------
(* The specifications.                                                     *)

\* create_embeddings, then convert_text_to_embeddings_indices.
InitEmb == EmbInit /\ LoadParked /\ FmtParked /\ ClsParked /\ BatchParked

NextEmb == EmbCreate \/ EmbConvert

SpecEmb == InitEmb /\ [][NextEmb]_vars

NextLoad == \E p \in Procs : Step(p)

\* load_embeddings called by two processes, their steps interleaved.
InitLoad ==
  /\ LoadInit /\ ~one_at_a_time
  /\ EmbParked /\ FmtParked /\ ClsParked /\ BatchParked

SpecLoad == InitLoad /\ [][NextLoad]_vars

\* load_embeddings called again and again, a call entered only when no
\* other call is running.
InitLoadSeq ==
  /\ LoadInit /\ one_at_a_time
  /\ EmbParked /\ FmtParked /\ ClsParked /\ BatchParked

SpecLoadSeq == InitLoadSeq /\ [][NextLoad]_vars

\* tf_format, applied once and then to its own result.
InitFmt == FmtInit /\ EmbParked /\ LoadParked /\ ClsParked /\ BatchParked

NextFmt == Format \/ FormatAgain

SpecFmt == InitFmt /\ [][NextFmt]_vars

\* The three class registries, each applied once to one list of records.
InitCls == ClsInit /\ EmbParked /\ LoadParked /\ FmtParked /\ BatchParked

NextCls ==
  \/ compute_ans_type_classes
  \/ compute_category_classes
  \/ compute_gender_classes

SpecCls == InitCls /\ [][NextCls]_vars

\* One generator of create_batches, consumed to its end.
InitBatch == BatchInit /\ EmbParked /\ LoadParked /\ FmtParked /\ ClsParked

NextBatch == FirstNextRaises \/ FirstNext \/ LaterNext

SpecBatch == InitBatch /\ [][NextBatch]_vars

---------------------------------------------------------------------------
(* The properties.                                                         *)

\* A call of p has returned or raised, and p has not entered another.
Returned(p) == pc[p] = "idle" /\ ncalls[p] > 0

\* What the contract's order of sources gives the call of p, from the files
\* as they were when the call was entered.
FromSources(p) ==
  IF Exists(tmp0[p]) THEN PickleLoad(tmp0[p])
  ELSE IF Exists(perm0[p]) THEN PickleLoad(perm0[p])
  ELSE IF vocab[p] = None THEN Raise("ValueError")
  ELSE create_embeddings(vocab[p].elems, glove)

\* C1: with calls made one at a time, a call returns what unpickling the
\* temporary cache gives when that file exists, whatever the permanent cache
\* and vocab are; else what unpickling the permanent cache gives when that
\* file exists; and only when neither exists the table built from the
\* pretrained source filtered to vocab.  A call that found a cache file
\* wrote no file.
C1_SourceOrder ==
  \A p \in Procs :
    Returned(p) =>
      /\ ret[p] = FromSources(p)
      /\ Exists(tmp0[p]) \/ Exists(perm0[p]) =>
           tmp_file = tmp0[p] /\ perm_file = perm0[p]

\* C1, its case: both caches exist, a vocab is given, and the call returned
\* the temporary cache's table.
C1_Witness ==
  \E p \in Procs :
    /\ Returned(p)
    /\ tmp0[p] = CachedTmp /\ perm0[p] = CachedPerm
    /\ vocab[p] # None
    /\ ret[p] = CachedTmp

\* C2: with calls made one at a time, once a call has built the table fresh
\* and returned T, the temporary cache file holds T, every call entered
\* later returns T whatever its vocab, and create_embeddings has run at
\* most once.
C2_BuiltOnceThenCached ==
  /\ nbuilds <= 1
  /\ lastBuilt.kind = "table" => tmp_file = lastBuilt
  /\ \A p \in Procs : Returned(p) /\ afterBuild[p] => ret[p] = lastBuilt

\* C2, its case: one call built the table for a vocabulary, and a later
\* call without a vocab returned that table.
C2_Witness ==
  \E p \in Procs :
    /\ Returned(p) /\ afterBuild[p]
    /\ vocab[p] = None
    /\ ret[p] = lastBuilt
    /\ nbuilds = 1

\* word is the first token of a line of the source.
Occurs(word, source) ==
  /\ source.readable
  /\ \E k \in 1..Len(source.lines) :
       source.lines[k].kind # "blank" /\ source.lines[k].word = word

\* C3: the lookup create_embeddings returns maps every token of the
\* vocabulary that occurs in the source to a row index in [0, |kept|) that
\* no other key maps to, maps 'UNK' to |kept|, and
\* convert_text_to_embeddings_indices gives |kept| for every token that is
\* not a key of the lookup.
C3_UniqueRowsAndUnknown ==
  e_pc \in {"created", "converted"} =>
    LET lookup == e_result.lookup
        kept == Len(e_result.embed) - 1
    IN /\ \A w \in e_vocab :
            Occurs(w, e_source) =>
              /\ w \in DOMAIN lookup
              /\ lookup[w] \in 0..(kept - 1)
              /\ \A u \in DOMAIN lookup \ {w} : lookup[u] # lookup[w]
       /\ lookup[UNK] = kept
       /\ e_pc = "converted" =>
            \A k \in 1..Len(e_words) :
              e_words[k] \notin DOMAIN lookup => e_indices[k] = kept

\* C4: every sequence tf_format returns has exactly max_len elements: the
\* first max_len elements of a sequence that was longer, and all the
\* elements of a shorter one followed by copies of zero_index.
C4_ExactlyMaxLen ==
  f_pc \in {"once", "twice"} =>
    /\ Len(f_once) = Len(f_input)
    /\ \A i \in 1..Len(f_input) :
         LET old == f_input[i]
             new == f_once[i]
         IN /\ Len(new) = f_max_len
            /\ Len(old) > f_max_len => new = SubSeq(old, 1, f_max_len)
            /\ Len(old) <= f_max_len =>
                 /\ SubSeq(new, 1, Len(old)) = old
                 /\ \A k \in (Len(old) + 1)..f_max_len :
                      new[k] = f_zero_index

\* C4, its case: one sequence is cut and another is padded.
C4_Witness ==
  /\ f_pc = "once"
  /\ f_input = <<<<1, 2>>, <<>>>>
  /\ f_max_len = 1
  /\ f_zero_index = 0
  /\ f_once = <<<<1>>, <<0>>>>

\* The class names of a list.
Names(i_to_class) == {i_to_class[k] : k \in 1..Len(i_to_class)}

\* C5: after compute_<field>_classes every record's field is its old value
\* when that is a class name and "missing" otherwise, its id is in
\* [0, |class list|), and "missing" is the last class: id 8, 6 and 3 of the
\* 9, 7 and 4 classes.
C5_NormalizedToMissing ==
  \A field \in c_called :
    LET i_to_class == c_i_to_class[field]
        class_to_i == c_class_to_i[field]
        size == CASE field = "ans_type" -> 9
                  [] field = "category" -> 7
                  [] field = "gender" -> 4
    IN /\ Len(c_props) = Len(c_props0)
       /\ \A k \in 1..Len(c_props) :
            /\ c_props[k][field] =
                 IF c_props0[k][field] \in Names(i_to_class)
                   THEN c_props0[k][field] ELSE "missing"
            /\ c_props[k][field] \in DOMAIN class_to_i
            /\ class_to_i[c_props[k][field]] \in 0..(Len(i_to_class) - 1)
       /\ Len(i_to_class) = size
       /\ i_to_class[size] = "missing"
       /\ class_to_i["missing"] = size - 1

\* C5, its case: a record whose ans_type is no class name was rewritten,
\* one whose ans_type is 'char' was kept, and 'char' has id 2.
C5_Witness ==
  /\ "ans_type" \in c_called
  /\ \E j, k \in 1..Len(c_props) :
       /\ c_props0[j].ans_type = "char" /\ c_props[j].ans_type = "char"
       /\ c_props0[k].ans_type = "bogus" /\ c_props[k].ans_type = "missing"
  /\ c_class_to_i["ans_type"]["char"] = 2
  /\ c_class_to_i["ans_type"]["missing"] = 8

\* The generator got past its checks of x_data and y_data.
Batching == b_pc \in {"suspended", "done"}

\* The places (batch, row) at which the yielded x batches hold row j.
Places(j) ==
  {bm \in (1..Len(b_yielded)) \X (1..b_batch_size) :
     /\ bm[2] <= Len(b_yielded[bm[1]]["x"])
     /\ b_yielded[bm[1]]["x"][bm[2]] = <<"x", j>>}

\* C6: when batch_size divides n, the k-th batch yielded holds, in each of
\* the six arrays, the rows at the k-th batch_size-sized window of one index
\* order, which is the identity without shuffle and a permutation of
\* 0..n-1 with it; and over the batches of a finished generator every
\* example appears exactly once.
C6_AlignedPartition ==
  Batching /\ b_n % b_batch_size = 0 =>
    /\ Len(b_order) = b_n
    /\ \A j \in 0..(b_n - 1) : \E k \in 1..b_n : b_order[k] = j
    /\ ~b_shuffle => b_order = Identity(b_n)
    /\ Len(b_yielded) * b_batch_size <= b_n
    /\ \A k \in 1..Len(b_yielded) : \A a \in Arrays :
         /\ Len(b_yielded[k][a]) = b_batch_size
         /\ \A m \in 1..b_batch_size :
              b_yielded[k][a][m] =
                <<a, b_order[(k - 1) * b_batch_size + m] + 1>>
    /\ b_pc = "done" => \A j \in 1..b_n : Cardinality(Places(j)) = 1

\* C6, its case: four examples, shuffled out of their order, were yielded
\* as two batches of two.
C6_Witness ==
  /\ b_pc = "done"
  /\ b_n = 4 /\ b_batch_size = 2
  /\ b_shuffle /\ b_order # Identity(4)
  /\ Len(b_yielded) = 2

\* C7: every batch yielded has batch_size rows in each of the six arrays.
\* When batch_size does not divide n, a finished generator has yielded,
\* with pad, n div batch_size + 1 batches, the last holding the
\* n mod batch_size rows of the last window followed by rows of zeros, and
\* without pad n div batch_size batches.
C7_LeadingDimension ==
  Batching =>
    /\ \A k \in 1..Len(b_yielded) : \A a \in Arrays :
         Len(b_yielded[k][a]) = b_batch_size
    /\ b_pc = "done" /\ b_n % b_batch_size # 0 =>
         LET whole == b_n \div b_batch_size
             rest == b_n % b_batch_size
         IN IF b_pad
              THEN /\ Len(b_yielded) = whole + 1
                   /\ \A a \in Arrays : \A m \in 1..b_batch_size :
                        b_yielded[whole + 1][a][m] =
                          IF m <= rest
                            THEN <<a, b_order[whole * b_batch_size + m] + 1>>
                            ELSE <<a, 0>>
              ELSE Len(b_yielded) = whole

\* C7, its case: three examples in batches of two with pad: the second
\* batch holds one example and one row of zeros.
C7_Witness ==
  /\ b_pc = "done"
  /\ b_n = 3 /\ b_batch_size = 2 /\ b_pad
  /\ Len(b_yielded) = 2
  /\ b_yielded[2]["y"][2] = <<"y", 0>>

\* C8: tf_format applied to what tf_format returned, with the same max_len
\* and pad index, returns it unchanged.
C8_Idempotent == f_pc = "twice" => f_twice = f_once

\* C8, its case: the first application changed the collection, by a cut
\* and by a pad, and the second changed nothing.
C8_Witness ==
  /\ f_pc = "twice"
  /\ \E i, j \in 1..Len(f_input) :
       Len(f_input[i]) > f_max_len /\ Len(f_input[j]) < f_max_len
  /\ f_twice = f_once

\* The call of p is on the write path: the temporary file is open for
\* writing.
Writing(p) == pc[p] \in {"create", "dump", "close"}

\* C9: a process opens the temporary cache file for writing only if no
\* process had opened it for writing when it checked that the file exists:
\* once one process is on the write path, a process that makes its check
\* afterwards does not write.
C9_WriterCheckedBeforeAnyOpen ==
  \A p \in Procs : wrote[p] => ~sawOpened[p]

\* C9, its case: no cache file being there, both processes passed the
\* checks and both have the temporary cache file open for writing.
C9_Witness ==
  /\ freshStart
  /\ \A p \in Procs : Writing(p) /\ wrote[p]

\* C10: started with no cache file, whenever no call is running the
\* temporary cache file exists only if it holds a complete table, and no
\* call has failed to unpickle the temporary cache.
C10_CacheFileComplete ==
  freshStart =>
    /\ (\A p \in Procs : pc[p] = "idle") =>
         (Exists(tmp_file) => tmp_file.kind = "table")
    /\ \A p \in Procs :
         ret[p] \notin {Raise("EOFError"), Raise("UnpicklingError")}

=============================================================================
